---- MODULE Spec2Model ----
(***************************************************************************)
(* Quiz generator: the Hugging Face / Gemini backend clients, the quiz     *)
(* parser format_quiz, create_quiz, and the Streamlit session handlers     *)
(* (Generate Quiz, the quiz display, Submit Quiz).                         *)
(*                                                                         *)
(* Text is modelled character by character: a Python str is a sequence of  *)
(* one-character strings.  A Python object (the result of json.loads, of   *)
(* response.json(), or a value built by the program) is a record           *)
(*   [t, s, keys, items]                                                   *)
(* t: "str" | "num" | "null" | "true" | "false" | "list" | "dict"          *)
(* s: the characters of a str, the digits of a num                         *)
(* keys/items: the keys and values of a dict in insertion order, items:    *)
(* the elements of a list.                                                 *)
(***************************************************************************)
EXTENDS Integers, Sequences, FiniteSets, TLC

VARIABLES
    pc,             \* position of the run: which step comes next
    raw_text,       \* format_quiz's argument (create_quiz's raw_output)
    num_questions,  \* create_quiz's num_questions / the slider value
    src_value,      \* the object the raw text was serialised from (or PyNone)
    quiz_data,      \* format_quiz's return value
    result,         \* outcome of create_quiz: [kind, value]
    provider,       \* "hf" (providers/hf.py), "app" (app.py), "gemini"
    credential,     \* hf_token / api_key passed to generate
    transport,      \* the responses the transport will give, in order
    gen,            \* outcome of generate: [kind, text, msg, calls]
    session,        \* st.session_state: [has_quiz, quiz, answers]
    radio,          \* the radio widgets' current selection, by question index
    last,           \* what the last script run did
    good_quiz,      \* history: result of the most recent successful create_quiz
    score           \* Submit Quiz: [score, verdicts]

vars == <<pc, raw_text, num_questions, src_value, quiz_data, result, provider,
          credential, transport, gen, session, radio, last, good_quiz, score>>

-----------------------------------------------------------------------------
(* Bounds of the model *)

\* longest raw text, in fragments, tried on the tolerant path
MaxFrags == 3
\* longest JSON question list serialised into a raw text
MaxListLen == 2
\* largest requested count tried on create_quiz
MaxCount == 2
\* longest script of transport responses handed to one generate call
MaxResponses == 3
\* largest slider value tried in the session (the slider itself goes to 10)
MaxSliderTried == 3

\* st.slider("Number of questions", 2, 10, 5): the smallest count the UI offers
SliderMin == 2

-----------------------------------------------------------------------------
(* Python objects *)

PyStr(chars) == [t |-> "str", s |-> chars, keys |-> <<>>, items |-> <<>>]
PyNum(digits) == [t |-> "num", s |-> digits, keys |-> <<>>, items |-> <<>>]
PyNone == [t |-> "null", s |-> <<>>, keys |-> <<>>, items |-> <<>>]
PyTrue == [t |-> "true", s |-> <<>>, keys |-> <<>>, items |-> <<>>]
PyFalse == [t |-> "false", s |-> <<>>, keys |-> <<>>, items |-> <<>>]
PyList(elems) == [t |-> "list", s |-> <<>>, keys |-> <<>>, items |-> elems]
PyDict(ks, vs) == [t |-> "dict", s |-> <<>>, keys |-> ks, items |-> vs]

\* bool(v): Python truthiness
Truthy(v) ==
    CASE v.t = "str" -> v.s # <<>>
      [] v.t = "num" -> \E i \in 1..Len(v.s) : v.s[i] # "0"
      [] v.t = "null" -> FALSE
      [] v.t = "true" -> TRUE
      [] v.t = "false" -> FALSE
      [] v.t = "list" -> v.items # <<>>
      [] v.t = "dict" -> v.keys # <<>>

\* k in d, for a dict d
HasKey(d, k) == \E i \in 1..Len(d.keys) : d.keys[i] = k

\* d[k], for a dict d that has k
Lookup(d, k) == d.items[CHOOSE i \in 1..Len(d.keys) : d.keys[i] = k]

\* d[k] = v: replaces the value of an existing key, appends a new one
DictSet(d, k, v) ==
    IF HasKey(d, k)
    THEN PyDict(d.keys, [i \in 1..Len(d.items) |-> IF d.keys[i] = k THEN v ELSE d.items[i]])
    ELSE PyDict(Append(d.keys, k), Append(d.items, v))

-----------------------------------------------------------------------------
(* Python str operations *)

Min(S) == CHOOSE x \in S : \A y \in S : x <= y
Max(S) == CHOOSE x \in S : \A y \in S : x >= y

Lowers == <<"a","b","c","d","e","f","g","h","i","j","k","l","m",
            "n","o","p","q","r","s","t","u","v","w","x","y","z">>
Uppers == <<"A","B","C","D","E","F","G","H","I","J","K","L","M",
            "N","O","P","Q","R","S","T","U","V","W","X","Y","Z">>
Digits == {"0","1","2","3","4","5","6","7","8","9"}

UpperChar(c) ==
    IF \E i \in 1..26 : Lowers[i] = c
    THEN Uppers[CHOOSE i \in 1..26 : Lowers[i] = c] ELSE c
LowerChar(c) ==
    IF \E i \in 1..26 : Uppers[i] = c
    THEN Lowers[CHOOSE i \in 1..26 : Uppers[i] = c] ELSE c

\* str.upper(), str.lower()
Upper(str) == [i \in 1..Len(str) |-> UpperChar(str[i])]
Lower(str) == [i \in 1..Len(str) |-> LowerChar(str[i])]

IsSpace(c) == c \in {" ", "\n", "\t", "\r"}

\* str.strip()
Strip(str) ==
    LET keep == {i \in 1..Len(str) : ~IsSpace(str[i])}
    IN  IF keep = {} THEN <<>> ELSE SubSeq(str, Min(keep), Max(keep))

\* str.startswith(prefix)
StartsWith(str, prefix) ==
    Len(str) >= Len(prefix) /\ SubSeq(str, 1, Len(prefix)) = prefix

\* sub in str
Contains(str, sub) ==
    \E i \in 1..(Len(str) - Len(sub) + 1) : SubSeq(str, i, i + Len(sub) - 1) = sub

\* str.split(sep) for a one-character separator
RECURSIVE Split(_, _)
Split(str, sep) ==
    LET at == {i \in 1..Len(str) : str[i] = sep}
    IN  IF at = {} THEN <<str>>
        ELSE <<SubSeq(str, 1, Min(at) - 1)>>
                 \o Split(SubSeq(str, Min(at) + 1, Len(str)), sep)

\* the concatenation of a sequence of strings
RECURSIVE Concat(_)
Concat(strs) == IF strs = <<>> THEN <<>> ELSE Head(strs) \o Concat(Tail(strs))

\* the elements of a sequence
Range(xs) == {xs[i] : i \in 1..Len(xs)}

\* Slice without the cut: the whole sequence whatever n is
Slice_KeepsAll(xs, n) == xs

\* xs[:n] for n >= 0
Slice(xs, n) == SubSeq(xs, 1, IF n < Len(xs) THEN n ELSE Len(xs))

\* str[i], or "" past either end
At(str, i) == IF i >= 1 /\ i <= Len(str) THEN str[i] ELSE ""

-----------------------------------------------------------------------------
(* json.loads, json.dumps and str() of a Python object *)

\* the first index >= i that holds no JSON whitespace (Len + 1 at the end)
SkipWs(str, i) ==
    LET non == {j \in i..Len(str) : ~IsSpace(str[j])}
    IN  IF non = {} THEN (IF i > Len(str) THEN i ELSE Len(str) + 1) ELSE Min(non)

ParseOk(v, p) == [ok |-> TRUE, val |-> v, pos |-> p]
ParseFail == [ok |-> FALSE, val |-> PyNone, pos |-> 0]

\* a string literal opening at i: runs to the next quote; a raw control
\* character inside it is a decode error (strict mode)
ParseString(str, i) ==
    LET close == {j \in (i + 1)..Len(str) : str[j] = "\""}
    IN  IF close = {} THEN ParseFail
        ELSE LET j == Min(close)
                 body == SubSeq(str, i + 1, j - 1)
             IN  IF \E k \in 1..Len(body) : body[k] \in {"\n", "\t", "\r"}
                 THEN ParseFail
                 ELSE ParseOk(PyStr(body), j + 1)

\* an integer literal opening at i: 0, or a digit run without leading zero
ParseNumber(str, i) ==
    IF str[i] = "0" THEN ParseOk(PyNum(<<"0">>), i + 1)
    ELSE LET j == Min({k \in (i + 1)..(Len(str) + 1) : At(str, k) \notin Digits})
         IN  ParseOk(PyNum(SubSeq(str, i, j - 1)), j)

WordAt(str, i, word) ==
    i + Len(word) - 1 <= Len(str) /\ SubSeq(str, i, i + Len(word) - 1) = word

RECURSIVE ParseValue(_, _)
RECURSIVE ParseArrayRest(_, _, _)
RECURSIVE ParseObjectRest(_, _, _)

\* the value that starts exactly at i
ParseValue(str, i) ==
    LET c == At(str, i)
    IN  CASE c = "\"" -> ParseString(str, i)
          [] c = "[" ->
                LET j == SkipWs(str, i + 1)
                IN  IF At(str, j) = "]" THEN ParseOk(PyList(<<>>), j + 1)
                    ELSE ParseArrayRest(str, j, <<>>)
          [] c = "{" ->
                LET j == SkipWs(str, i + 1)
                IN  IF At(str, j) = "}" THEN ParseOk(PyDict(<<>>, <<>>), j + 1)
                    ELSE ParseObjectRest(str, j, PyDict(<<>>, <<>>))
          [] c \in Digits -> ParseNumber(str, i)
          [] c = "n" /\ WordAt(str, i, <<"n","u","l","l">>) -> ParseOk(PyNone, i + 4)
          [] c = "t" /\ WordAt(str, i, <<"t","r","u","e">>) -> ParseOk(PyTrue, i + 4)
          [] c = "f" /\ WordAt(str, i, <<"f","a","l","s","e">>) -> ParseOk(PyFalse, i + 5)
          [] OTHER -> ParseFail

\* the elements of an array from i on, acc holding those already read
ParseArrayRest(str, i, acc) ==
    LET r == ParseValue(str, i)
    IN  IF ~r.ok THEN ParseFail
        ELSE LET j == SkipWs(str, r.pos)
                 acc2 == Append(acc, r.val)
             IN  IF At(str, j) = "]" THEN ParseOk(PyList(acc2), j + 1)
                 ELSE IF At(str, j) = "," THEN ParseArrayRest(str, SkipWs(str, j + 1), acc2)
                 ELSE ParseFail

\* the members of an object from i on; a repeated key keeps its last value
ParseObjectRest(str, i, acc) ==
    IF At(str, i) # "\"" THEN ParseFail
    ELSE LET k == ParseString(str, i)
         IN  IF ~k.ok THEN ParseFail
             ELSE LET j == SkipWs(str, k.pos)
                  IN  IF At(str, j) # ":" THEN ParseFail
                      ELSE LET r == ParseValue(str, SkipWs(str, j + 1))
                           IN  IF ~r.ok THEN ParseFail
                               ELSE LET m == SkipWs(str, r.pos)
                                        acc2 == DictSet(acc, k.val.s, r.val)
                                    IN  IF At(str, m) = "}" THEN ParseOk(acc2, m + 1)
                                        ELSE IF At(str, m) = ","
                                        THEN ParseObjectRest(str, SkipWs(str, m + 1), acc2)
                                        ELSE ParseFail

\* json.loads(str): [ok, val]; ok = FALSE stands for json.JSONDecodeError
json_loads(str) ==
    LET r == ParseValue(str, SkipWs(str, 1))
    IN  IF r.ok /\ SkipWs(str, r.pos) = Len(str) + 1
        THEN [ok |-> TRUE, val |-> r.val]
        ELSE [ok |-> FALSE, val |-> PyNone]

RECURSIVE Dumps(_)
RECURSIVE DumpsFrom(_, _)

\* json.dumps(v), default separators: the JSON text a backend writes for
\* an object (used to build raw texts, not by the program)
Dumps(v) ==
    CASE v.t = "str" -> <<"\"">> \o v.s \o <<"\"">>
      [] v.t = "num" -> v.s
      [] v.t = "null" -> <<"n","u","l","l">>
      [] v.t = "true" -> <<"t","r","u","e">>
      [] v.t = "false" -> <<"f","a","l","s","e">>
      [] v.t = "list" -> <<"[">> \o DumpsFrom(v, 1) \o <<"]">>
      [] v.t = "dict" -> <<"{">> \o DumpsFrom(v, 1) \o <<"}">>

DumpsFrom(v, i) ==
    IF i > Len(v.items) THEN <<>>
    ELSE (IF i > 1 THEN <<",", " ">> ELSE <<>>)
         \o (IF v.t = "dict" THEN <<"\"">> \o v.keys[i] \o <<"\"", ":", " ">> ELSE <<>>)
         \o Dumps(v.items[i])
         \o DumpsFrom(v, i + 1)

RECURSIVE Repr(_)
RECURSIVE ReprFrom(_, _)

\* str(v) of a list, dict, None, bool or int; repr of a str inside them
Repr(v) ==
    CASE v.t = "str" -> <<"'">> \o v.s \o <<"'">>
      [] v.t = "num" -> v.s
      [] v.t = "null" -> <<"N","o","n","e">>
      [] v.t = "true" -> <<"T","r","u","e">>
      [] v.t = "false" -> <<"F","a","l","s","e">>
      [] v.t = "list" -> <<"[">> \o ReprFrom(v, 1) \o <<"]">>
      [] v.t = "dict" -> <<"{">> \o ReprFrom(v, 1) \o <<"}">>

ReprFrom(v, i) ==
    IF i > Len(v.items) THEN <<>>
    ELSE (IF i > 1 THEN <<",", " ">> ELSE <<>>)
         \o (IF v.t = "dict" THEN <<"'">> \o v.keys[i] \o <<"'", ":", " ">> ELSE <<>>)
         \o Repr(v.items[i])
         \o ReprFrom(v, i + 1)

-----------------------------------------------------------------------------
(* format_quiz *)

K_questions == <<"q","u","e","s","t","i","o","n","s">>
K_question == <<"q","u","e","s","t","i","o","n">>
K_options == <<"o","p","t","i","o","n","s">>
K_answer == <<"a","n","s","w","e","r">>

\* "Answer: Not provided"
NotProvided == <<"A","n","s","w","e","r",":"," ","N","o","t"," ",
                 "p","r","o","v","i","d","e","d">>

\* Q\d+[:.-] matched at i, ignoring case: the index of its last character, or 0
MarkerEnd(str, i) ==
    IF At(str, i) \in {"Q", "q"}
    THEN LET j == Min({k \in (i + 1)..(Len(str) + 1) : At(str, k) \notin Digits})
         IN  IF j > i + 1 /\ At(str, j) \in {":", ".", "-"} THEN j ELSE 0
    ELSE 0

\* re.split(r"(?:Q\d+[:.-])", str, flags=re.IGNORECASE)
RECURSIVE ReSplit(_)
ReSplit(str) ==
    LET at == {i \in 1..Len(str) : MarkerEnd(str, i) > 0}
    IN  IF at = {} THEN <<str>>
        ELSE <<SubSeq(str, 1, Min(at) - 1)>>
                 \o ReSplit(SubSeq(str, MarkerEnd(str, Min(at)) + 1, Len(str)))

NonBlank(line) == Strip(line) # <<>>

\* [line.strip() for line in part.split("\n") if line.strip()]
LinesOf(part) ==
    LET kept == SelectSeq(Split(part, "\n"), NonBlank)
    IN  [i \in 1..Len(kept) |-> Strip(kept[i])]

\* re.match(r"^[A-Da-d][).]", line)
IsOption(line) ==
    /\ Len(line) >= 2
    /\ line[1] \in {"A","B","C","D","a","b","c","d"}
    /\ line[2] \in {")", "."}

\* "answer" in line.lower()
HasAnswer(line) == Contains(Lower(line), K_answer)

\* next((line for line in lines if "answer" in line.lower()), "Answer: Not provided")
AnswerLine(lines) ==
    LET hits == {i \in 1..Len(lines) : HasAnswer(lines[i])}
    IN  IF hits = {} THEN NotProvided ELSE lines[Min(hits)]

\* {"question": ..., "options": [...], "answer": ...}
Question(q, opts, ans) ==
    PyDict(<<K_question, K_options, K_answer>>,
           <<PyStr(q), PyList([i \in 1..Len(opts) |-> PyStr(opts[i])]), PyStr(ans)>>)

\* the options taken from every line of the segment, the first included
QuestionOf_OptionsFromAllLines(part) ==
    LET lines == LinesOf(part)
    IN  Question(lines[1], SelectSeq(lines, IsOption), AnswerLine(lines))

\* the question one segment yields
QuestionOf(part) ==
    LET lines == LinesOf(part)
    IN  Question(lines[1], SelectSeq(Tail(lines), IsOption), AnswerLine(lines))

\* the loop over the segments: blank segments are skipped
RECURSIVE QuestionsOf(_)
QuestionsOf(parts) ==
    IF parts = <<>> THEN <<>>
    ELSE (IF Strip(Head(parts)) = <<>> \/ LinesOf(Head(parts)) = <<>>
          THEN <<>> ELSE <<QuestionOf(Head(parts))>>)
         \o QuestionsOf(Tail(parts))

\* the regex parsing of format_quiz
TolerantParse(text) == PyList(QuestionsOf(ReSplit(text)))

\* whether format_quiz tries json.loads at all
LooksLikeJson(text) ==
    StartsWith(Strip(text), <<"[">>) \/ StartsWith(Strip(text), <<"{">>)

\* format_quiz returning the decoded object itself instead of its questions
format_quiz_WholeObject(text) ==
    LET d == json_loads(text)
    IN  IF LooksLikeJson(text) /\ d.ok /\ d.val.t \in {"list", "dict"} THEN d.val
        ELSE TolerantParse(text)

\* format_quiz(raw_text): the object it returns
format_quiz(text) ==
    LET d == json_loads(text)
    IN  IF LooksLikeJson(text) /\ d.ok /\ d.val.t = "list" THEN d.val
        ELSE IF LooksLikeJson(text) /\ d.ok /\ d.val.t = "dict" /\ HasKey(d.val, K_questions)
        THEN Lookup(d.val, K_questions)
        ELSE TolerantParse(text)

-----------------------------------------------------------------------------
(* The backend clients: generate of providers/hf.py, of app.py and of       *)
(* providers/gemini.py.  The transport is the sequence of responses it     *)
(* will give; a call consumes the next one.  The result of a call is       *)
(* [kind, text, msg, calls]: kind "ok" with the returned object, or the    *)
(* name of the exception raised; calls counts the network calls made.      *)

K_generated_text == <<"g","e","n","e","r","a","t","e","d","_","t","e","x","t">>
K_error == <<"e","r","r","o","r">>
K_label == <<"l","a","b","e","l">>
K_conversation == <<"c","o","n","v","e","r","s","a","t","i","o","n">>
K_generated_responses ==
    <<"g","e","n","e","r","a","t","e","d","_","r","e","s","p","o","n","s","e","s">>

\* an HTTP response with a JSON body
Http(code, body) == [kind |-> "http", status |-> code, data |-> body]
\* requests.post raising ConnectionError / Timeout, or the SDK call raising
NetworkFailure == [kind |-> "exc", status |-> 0, data |-> PyNone]
\* the Gemini SDK's response object: data is resp.text, or None for no resp
SdkResponse(text) == [kind |-> "sdk", status |-> 200, data |-> text]

Returned(v, n) == [kind |-> "ok", text |-> v, msg |-> "", calls |-> n]
Raised(exc, why, n) == [kind |-> exc, text |-> PyNone, msg |-> why, calls |-> n]

\* raise_for_status that lets server errors through
RaisesForStatus_ClientErrorsOnly(r) == r.status >= 400 /\ r.status < 500

\* response.raise_for_status(): 4xx and 5xx raise HTTPError
RaisesForStatus(r) == r.status >= 400 /\ r.status < 600

\* the lines both Hugging Face clients share, up to the decoded body: the
\* exception they raise, or "" when the body is to be interpreted
HFFailure(r) ==
    IF r.kind = "exc" THEN "request_failed"
    ELSE IF r.status = 503 THEN "model_loading"
    ELSE IF RaisesForStatus(r) THEN "request_failed"
    ELSE IF r.data.t = "dict" /\ HasKey(r.data, K_error) THEN "api_error"
    ELSE ""

\* providers/hf.py: the text extracted from a decoded success body
HFExtract(data) ==
    IF data.t = "list" /\ Len(data.items) > 0 /\ HasKey(data.items[1], K_generated_text)
    THEN Lookup(data.items[1], K_generated_text)
    ELSE IF data.t = "list" /\ Len(data.items) > 0 /\ data.items[1].t = "dict"
            /\ HasKey(data.items[1], K_label)
    THEN PyStr(Repr(data.items[1]))
    ELSE IF data.t = "dict" /\ HasKey(data, K_generated_text)
    THEN Lookup(data, K_generated_text)
    ELSE PyStr(Repr(data))

\* app.py: the text extracted from a decoded success body
AppExtract(data) ==
    IF data.t = "list" /\ Len(data.items) > 0 /\ HasKey(data.items[1], K_generated_text)
    THEN Lookup(data.items[1], K_generated_text)
    ELSE IF data.t = "list" /\ Len(data.items) > 0 /\ HasKey(data.items[1], K_conversation)
    THEN Lookup(Lookup(data.items[1], K_conversation), K_generated_responses).items[1]
    ELSE IF data.t = "dict" /\ HasKey(data, K_generated_text)
    THEN Lookup(data, K_generated_text)
    ELSE PyStr(Repr(data))

\* a client that tries again, up to three attempts, while the model is loading
RECURSIVE hf_attempt(_, _)
hf_attempt(responses, k) ==
    LET r == responses[k]
    IN  IF r.kind = "http" /\ r.status = 503 /\ k < 3 /\ k < Len(responses)
        THEN hf_attempt(responses, k + 1)
        ELSE IF HFFailure(r) # "" THEN Raised("HFError", HFFailure(r), k)
        ELSE Returned(HFExtract(r.data), k)
hf_generate_Retrying(hf_token, responses) == hf_attempt(responses, 1)

\* providers/hf.py generate(prompt, hf_token, model_id): one POST, whatever
\* the token is
hf_generate(hf_token, responses) ==
    LET r == responses[1]
    IN  IF HFFailure(r) # "" THEN Raised("HFError", HFFailure(r), 1)
        ELSE Returned(HFExtract(r.data), 1)

\* app.py generate(prompt, hf_token, model_id)
app_generate(hf_token, responses) ==
    LET r == responses[1]
    IN  IF HFFailure(r) # "" THEN Raised("HFError", HFFailure(r), 1)
        ELSE Returned(AppExtract(r.data), 1)

\* providers/gemini.py generate(prompt, api_key, ...)
gemini_generate(api_key, responses) ==
    LET r == responses[1]
    IN  IF ~Truthy(api_key) THEN Raised("GeminiError", "missing_key", 0)
        ELSE IF r.kind = "exc" THEN Raised("Exception", "sdk", 1)
        ELSE IF ~Truthy(r.data) THEN Raised("GeminiError", "empty_response", 1)
        ELSE Returned(PyStr(Strip(r.data.s)), 1)

-----------------------------------------------------------------------------
(* create_quiz *)

\* quiz_data[:num_questions] and what evaluating it raises: a list or a str
\* is sliced, any other object cannot be (TypeError; KeyError for a dict on
\* Python 3.12 and later, where a slice is hashable)
SliceObject(v, n) ==
    CASE v.t = "list" -> [kind |-> "ok", value |-> PyList(Slice(v.items, n)), msg |-> ""]
      [] v.t = "str" -> [kind |-> "ok", value |-> PyStr(Slice(v.s, n)), msg |-> ""]
      [] OTHER -> [kind |-> "TypeError", value |-> PyNone, msg |-> "not_subscriptable"]

\* the lines after format_quiz: an empty quiz is an HFError, any other is
\* cut to the requested number
QuizOutcome(data, n) ==
    IF ~Truthy(data)
    THEN [kind |-> "HFError", value |-> PyNone, msg |-> "empty_quiz"]
    ELSE SliceObject(data, n)

\* create_quiz(topic, num_questions) with HF_TOKEN and the transport: the
\* object returned, or the exception that leaves it.  raw_output and
\* quiz_data are bound once, as the assignments of the code are
create_quiz(n, hf_token, responses) ==
    LET g == app_generate(hf_token, responses)
    IN  IF g.kind # "ok" THEN [kind |-> g.kind, value |-> PyNone, msg |-> g.msg]
        ELSE IF g.text.t # "str"
        THEN [kind |-> "AttributeError", value |-> PyNone, msg |-> "strip"]
        ELSE CHOOSE out \in {QuizOutcome(data, n) :
                                data \in {format_quiz(raw_output) :
                                             raw_output \in {g.text.s}}} : TRUE

-----------------------------------------------------------------------------
(* The Streamlit script: the Generate Quiz handler, the quiz display and    *)
(* the Submit Quiz handler.  session is st.session_state: has_quiz is      *)
(* "quiz" in st.session_state, answers[i] is answers["Q<i>"].              *)

NoSession == [has_quiz |-> FALSE, quiz |-> PyNone, answers |-> <<>>]

\* a handler that clears the stored quiz before it tries to make a new one
GenerateHandler_ClearsFirst(sess, hf_token, topic, n, responses) ==
    IF ~Truthy(hf_token)
    THEN [session |-> sess, kind |-> "error", msg |-> "token_required", calls |-> 0]
    ELSE IF Strip(topic) = <<>>
    THEN [session |-> sess, kind |-> "error", msg |-> "topic_required", calls |-> 0]
    ELSE LET r == create_quiz(n, hf_token, responses)
         IN  IF r.kind = "ok"
             THEN [session |-> [has_quiz |-> TRUE, quiz |-> r.value, answers |-> <<>>],
                   kind |-> "ok", msg |-> "", calls |-> 1]
             ELSE IF r.kind = "HFError"
             THEN [session |-> NoSession, kind |-> "error", msg |-> r.msg, calls |-> 1]
             ELSE [session |-> NoSession, kind |-> "crash", msg |-> r.kind, calls |-> 1]

\* the Generate Quiz handler on session state sess: the session it leaves
\* and what it reported; an exception other than HFError is not caught
GenerateHandler(sess, hf_token, topic, n, responses) ==
    IF ~Truthy(hf_token)
    THEN [session |-> sess, kind |-> "error", msg |-> "token_required", calls |-> 0]
    ELSE IF Strip(topic) = <<>>
    THEN [session |-> sess, kind |-> "error", msg |-> "topic_required", calls |-> 0]
    ELSE LET r == create_quiz(n, hf_token, responses)
         IN  IF r.kind = "ok"
             THEN [session |-> [has_quiz |-> TRUE, quiz |-> r.value, answers |-> <<>>],
                   kind |-> "ok", msg |-> "", calls |-> 1]
             ELSE IF r.kind = "HFError"
             THEN [session |-> sess, kind |-> "error", msg |-> r.msg, calls |-> 1]
             ELSE [session |-> sess, kind |-> "crash", msg |-> r.kind, calls |-> 1]

\* q["options"] as the strings the radio offers
OptionsOf(q) == Lookup(q, K_options).items

\* the display loop: answers["Q<idx>"] = choice for every question
Display(sess, choices) ==
    [sess EXCEPT !.answers = [i \in 1..Len(sess.quiz.items) |-> choices[i]]]

\* re.search(r"[A-D]", correct_ans.upper()), group(0) or ""
CorrectLetter(correct_ans) ==
    LET up == Upper(correct_ans)
        hits == {i \in 1..Len(up) : up[i] \in {"A", "B", "C", "D"}}
    IN  IF hits = {} THEN "" ELSE up[Min(hits)]

\* user_ans and user_ans[0].upper() == correct_letter
Credited(user_ans, q) ==
    /\ Truthy(user_ans)
    /\ UpperChar(user_ans.s[1]) = CorrectLetter(Lookup(q, K_answer).s)

\* the Submit Quiz handler: the verdict per question and the score
Scoring(sess) ==
    LET verdicts == [i \in 1..Len(sess.quiz.items) |->
                        Credited(sess.answers[i], sess.quiz.items[i])]
    IN  [score |-> Cardinality({i \in 1..Len(verdicts) : verdicts[i]}),
         verdicts |-> verdicts]

-----------------------------------------------------------------------------
(* Inputs *)

\* all sequences over S of length at most n
SeqsUpTo(S, n) == UNION {[1..k -> S] : k \in 0..n}

\* fragments of backend prose
F_Q1 == <<"Q","1",":">>
F_q12 == <<"q","1","2",".">>
F_what == <<" ","W","h","a","t","?","\n">>
F_optA == <<"A",")"," ","3","\n">>
F_optb == <<"b","."," ","4","\n">>
F_answer == <<"A","n","s","w","e","r",":"," ","B","\n">>
F_other == <<"E",")"," ","Q","3","\n">>
Frags == {F_Q1, F_q12, F_what, F_optA, F_optb, F_answer, F_other}

\* "Q1: What is 2+2?\nA) 3\nB) 4\nAnswer: B"
ExampleText ==
    <<"Q","1",":"," ","W","h","a","t"," ","i","s"," ","2","+","2","?","\n",
      "A",")"," ","3","\n","B",")"," ","4","\n","A","n","s","w","e","r",":"," ","B">>

\* three questions: one with an answer line, one without, one whose answer
\* line is a sentence
ThreeQuestions ==
    <<"Q","1",":"," ","x","\n","A",")"," ","3","\n","B",")"," ","4","\n",
      "A","n","s","w","e","r",":"," ","B","\n",
      "Q","2",":"," ","y","\n","A",")"," ","1","\n","C",")"," ","2","\n",
      "Q","3",":"," ","z","\n","b","."," ","4","\n",
      "T","h","e"," ","a","n","s","w","e","r"," ","i","s"," ","d">>

ProseTexts ==
    {Concat(fs) : fs \in SeqsUpTo(Frags, MaxFrags)}
    \cup {ExampleText, ThreeQuestions, <<" ", "\n", " ">>}

\* question objects a backend may put in a JSON answer
FullQuestion == Question(<<"x">>, << <<"A",")"," ","3">>, <<"C",")"," ","4">> >>, <<"C">>)
BareAnswer == PyDict(<<K_answer>>, <<PyStr(<<"A">>)>>)
QuestionLists == {PyList(qs) : qs \in SeqsUpTo({FullQuestion, BareAnswer}, MaxListLen)}

K_topic == <<"t","o","p","i","c">>

\* JSON answers: a bare list, {"questions": list}, {"topic":..,"questions":
\* list}, {"questions": not a list}, and objects without the key
JsonObjects ==
    QuestionLists
    \cup {PyDict(<<K_questions>>, <<l>>) : l \in QuestionLists}
    \cup {PyDict(<<K_topic, K_questions>>, <<PyStr(<<"t">>), l>>) : l \in QuestionLists}
    \cup {PyDict(<<K_questions>>, <<v>>) :
            v \in {PyNum(<<"5">>), PyNum(<<"0">>), PyStr(<<"x","y">>), PyStr(<<>>),
                   PyNone, PyTrue, PyDict(<<>>, <<>>), PyDict(<<K_topic>>, <<PyNum(<<"1">>)>>)}}
    \cup {PyDict(<<K_topic>>, <<PyStr(<<"t">>)>>), PyDict(<<>>, <<>>)}

\* a raw text with the object it serialises (src = PyNone: it serialises none)
RawInputs ==
    {[raw |-> t, src |-> PyNone] : t \in ProseTexts}
    \cup {[raw |-> Dumps(v), src |-> v] : v \in JsonObjects}
    \cup {[raw |-> <<" ", "\n">> \o Dumps(v) \o <<"\n">>, src |-> v] : v \in JsonObjects}
    \cup {[raw |-> SubSeq(Dumps(v), 1, Len(Dumps(v)) - 1), src |-> PyNone] : v \in JsonObjects}
    \cup {[raw |-> Dumps(v) \o <<" ", "x">>, src |-> PyNone] : v \in JsonObjects}

\* a success response whose generated_text is text
TextResponse(text) == Http(200, PyList(<<PyDict(<<K_generated_text>>, <<PyStr(text)>>)>>))

ShortQuiz == <<"Q","1",":"," ","x">>

\* what the Hugging Face endpoint may answer
HFResponses ==
    {Http(503, PyDict(<<K_error>>, <<PyStr(<<"l">>)>>)),
     Http(500, PyDict(<<>>, <<>>)),
     Http(404, PyDict(<<K_error>>, <<PyStr(<<"n">>)>>)),
     TextResponse(ShortQuiz),
     TextResponse(<<>>),
     Http(200, PyDict(<<K_generated_text>>, <<PyStr(ShortQuiz)>>)),
     Http(200, PyDict(<<K_error>>, <<PyStr(<<"b">>)>>)),
     Http(200, PyList(<<>>)),
     Http(200, PyList(<<PyDict(<<K_label>>, <<PyStr(<<"p">>)>>)>>)),
     Http(200, PyList(<<PyDict(<<K_conversation>>,
         <<PyDict(<<K_generated_responses>>, <<PyList(<<PyStr(ShortQuiz)>>)>>)>>)>>)),
     NetworkFailure}

\* what the Gemini SDK may answer
GeminiResponses ==
    {SdkResponse(PyStr(ShortQuiz)), SdkResponse(PyStr(<<" ">> \o ShortQuiz \o <<"\n">>)),
     SdkResponse(PyStr(<<>>)), SdkResponse(PyStr(<<" ", "\n">>)), SdkResponse(PyNone),
     NetworkFailure}

\* a credential: None, "", or a token
Token == PyStr(<<"h","f","_","x">>)
Credentials == {PyNone, PyStr(<<>>), Token}

Scripts(R) == SeqsUpTo(R, MaxResponses) \ {<<>>}

-----------------------------------------------------------------------------
(* Specification of the backend clients: one generate call per run *)

NoGen == [kind |-> "none", text |-> PyNone, msg |-> "", calls |-> 0]
NoResult == [kind |-> "none", value |-> PyNone, msg |-> ""]
NoLast == [op |-> "none", kind |-> "none", msg |-> "", calls |-> 0]
NoScore == [score |-> 0, verdicts |-> <<>>]

RestIdle ==
    /\ raw_text = <<>> /\ num_questions = 0 /\ src_value = PyNone
    /\ quiz_data = PyNone /\ result = NoResult
    /\ session = NoSession /\ radio = <<>> /\ last = NoLast
    /\ good_quiz = PyNone /\ score = NoScore

InitClient ==
    /\ pc = "start"
    /\ provider \in {"hf", "app", "gemini"}
    /\ credential \in Credentials
    /\ transport \in (IF provider = "gemini" THEN Scripts(GeminiResponses)
                      ELSE Scripts(HFResponses))
    /\ gen = NoGen
    /\ RestIdle

HFGenerate ==
    /\ pc = "start" /\ provider = "hf"
    /\ gen' = hf_generate(credential, transport)
    /\ pc' = "done"
    /\ UNCHANGED <<raw_text, num_questions, src_value, quiz_data, result, provider,
                   credential, transport, session, radio, last, good_quiz, score>>

AppGenerate ==
    /\ pc = "start" /\ provider = "app"
    /\ gen' = app_generate(credential, transport)
    /\ pc' = "done"
    /\ UNCHANGED <<raw_text, num_questions, src_value, quiz_data, result, provider,
                   credential, transport, session, radio, last, good_quiz, score>>

GeminiGenerate ==
    /\ pc = "start" /\ provider = "gemini"
    /\ gen' = gemini_generate(credential, transport)
    /\ pc' = "done"
    /\ UNCHANGED <<raw_text, num_questions, src_value, quiz_data, result, provider,
                   credential, transport, session, radio, last, good_quiz, score>>

NextClient == HFGenerate \/ AppGenerate \/ GeminiGenerate

SpecClient == InitClient /\ [][NextClient]_vars

-----------------------------------------------------------------------------
(* Specification of normalisation: create_quiz on a backend that answers   *)
(* with the raw text                                                       *)

InitNorm ==
    /\ pc = "start"
    /\ \E inp \in RawInputs : raw_text = inp.raw /\ src_value = inp.src
    /\ num_questions \in 0..MaxCount
    /\ provider = "app" /\ credential = Token
    /\ transport = <<TextResponse(raw_text)>>
    /\ gen = NoGen /\ quiz_data = PyNone /\ result = NoResult
    /\ session = NoSession /\ radio = <<>> /\ last = NoLast
    /\ good_quiz = PyNone /\ score = NoScore

CreateQuiz ==
    /\ pc = "start"
    /\ gen' = app_generate(credential, transport)
    /\ quiz_data' = format_quiz(raw_text)
    /\ result' = create_quiz(num_questions, credential, transport)
    /\ pc' = "done"
    /\ UNCHANGED <<raw_text, num_questions, src_value, provider, credential,
                   transport, session, radio, last, good_quiz, score>>

NextNorm == CreateQuiz

SpecNorm == InitNorm /\ [][NextNorm]_vars

-----------------------------------------------------------------------------
(* Specification of the session: script runs started by Generate Quiz, by  *)
(* a radio selection and by Submit Quiz                                    *)

Topics == {<<>>, <<" ">>, <<"P", "y">>}

\* what the endpoint answers to the session's requests
SessionResponses ==
    {TextResponse(ThreeQuestions),
     TextResponse(Dumps(PyDict(<<K_questions>>, <<PyList(<<FullQuestion>>)>>))),
     TextResponse(Dumps(PyDict(<<K_questions>>, <<PyNum(<<"5">>)>>))),
     TextResponse(<<>>),
     Http(503, PyDict(<<>>, <<>>)),
     Http(500, PyDict(<<>>, <<>>)),
     NetworkFailure}

\* the selections the radios of a new quiz may show: nothing, or the
\* selection the widget with the same key held, when the new question
\* still offers it
RadiosFor(quiz, old) ==
    {r \in [1..Len(quiz.items) -> {PyNone} \cup UNION {{o : o \in Range(OptionsOf(quiz.items[i]))} : i \in 1..Len(quiz.items)}] :
        \A i \in 1..Len(quiz.items) :
            \/ r[i] = PyNone
            \/ /\ i <= Len(old) /\ r[i] = old[i]
               /\ \E k \in 1..Len(OptionsOf(quiz.items[i])) : OptionsOf(quiz.items[i])[k] = r[i]}

Init ==
    /\ pc = "idle"
    /\ session = NoSession /\ radio = <<>> /\ last = NoLast
    /\ good_quiz = PyNone /\ score = NoScore
    /\ raw_text = <<>> /\ num_questions = 0 /\ src_value = PyNone
    /\ quiz_data = PyNone /\ result = NoResult
    /\ provider = "app" /\ credential = PyNone /\ transport = <<>> /\ gen = NoGen

\* a run with Generate Quiz pressed: the handler
GenerateQuiz ==
    /\ pc = "idle"
    /\ \E hf_token \in Credentials, topic \in Topics,
          n \in SliderMin..MaxSliderTried, r \in SessionResponses :
        \E h \in {GenerateHandler(session, hf_token, topic, n, <<r>>)},
           made \in {create_quiz(n, hf_token, <<r>>)} :
            /\ session' = h.session
            /\ last' = [op |-> "generate", kind |-> h.kind, msg |-> h.msg, calls |-> h.calls]
            /\ good_quiz' = IF Truthy(hf_token) /\ Strip(topic) # <<>> /\ made.kind = "ok"
                            THEN made.value ELSE good_quiz
            /\ IF h.kind = "ok" THEN radio' \in RadiosFor(h.session.quiz, radio)
               ELSE radio' = radio
    /\ pc' = "ran_handler"
    /\ score' = NoScore
    /\ UNCHANGED <<raw_text, num_questions, src_value, quiz_data, result, provider,
                   credential, transport, gen>>

\* the rest of a run: the quiz display, unless the run died or no quiz is stored
Render ==
    /\ pc \in {"ran_handler", "selected"}
    /\ session' = IF last.kind # "crash" /\ session.has_quiz
                  THEN Display(session, radio) ELSE session
    /\ pc' = "idle"
    /\ UNCHANGED <<raw_text, num_questions, src_value, quiz_data, result, provider,
                   credential, transport, gen, radio, last, good_quiz, score>>

\* the user picks an option of a displayed question: a new run follows
SelectAnswer ==
    /\ pc = "idle" /\ session.has_quiz
    /\ \E i \in 1..Len(session.quiz.items) :
        \E k \in 1..Len(OptionsOf(session.quiz.items[i])) :
            radio' = [radio EXCEPT ![i] = OptionsOf(session.quiz.items[i])[k]]
    /\ last' = [op |-> "select", kind |-> "ok", msg |-> "", calls |-> 0]
    /\ pc' = "selected"
    /\ score' = NoScore
    /\ UNCHANGED <<raw_text, num_questions, src_value, quiz_data, result, provider,
                   credential, transport, gen, session, good_quiz>>

\* a run with Submit Quiz pressed: the display, then the scoring.  The
\* Generate New Quiz button drawn inside this run is not an action: pressing
\* it starts a run in which Submit Quiz is not pressed, so its block is
\* never executed
SubmitQuiz ==
    /\ pc = "idle" /\ session.has_quiz
    /\ session' = Display(session, radio)
    /\ score' = Scoring(session')
    /\ last' = [op |-> "submit", kind |-> "ok", msg |-> "", calls |-> 0]
    /\ pc' = "idle"
    /\ UNCHANGED <<raw_text, num_questions, src_value, quiz_data, result, provider,
                   credential, transport, gen, radio, good_quiz>>

Next == GenerateQuiz \/ Render \/ SelectAnswer \/ SubmitQuiz

Spec == Init /\ [][Next]_vars

-----------------------------------------------------------------------------
(* Properties of the backend clients (SpecClient) *)

IsHuggingFace == provider \in {"hf", "app"}
IsLoading(r) == r.kind = "http" /\ r.status = 503
BackendErrors == {"HFError", "GeminiError"}

\* the transport answers 503, 503, then 200 with a valid payload
LoadingTwiceThenValid ==
    /\ Len(transport) = 3
    /\ IsLoading(transport[1]) /\ IsLoading(transport[2])
    /\ transport[3] = TextResponse(ShortQuiz)

C2_MissingCredentialNoCall ==
    (pc = "done" /\ ~Truthy(credential))
        => gen.kind \in BackendErrors /\ gen.calls = 0

\* C3: when every answer of the transport is status 500, a Hugging Face
\* generate call fails with HFError after exactly one network attempt.
C3_HardFailureOnce ==
    (pc = "done" /\ IsHuggingFace
        /\ \A i \in 1..Len(transport) : transport[i].kind = "http" /\ transport[i].status = 500)
        => gen.kind = "HFError" /\ gen.calls = 1

C3_Witness ==
    /\ pc = "done" /\ provider = "hf" /\ Len(transport) >= 2
    /\ \A i \in 1..Len(transport) : transport[i].kind = "http" /\ transport[i].status = 500
    /\ gen.kind = "HFError" /\ gen.msg = "request_failed" /\ gen.calls = 1

\* a success response whose text payload is the empty string
EmptyPayload(r) ==
    \/ r = TextResponse(<<>>)
    \/ r = Http(200, PyDict(<<K_generated_text>>, <<PyStr(<<>>)>>))
    \/ r = SdkResponse(PyStr(<<>>))

\* C4: for either provider, a success response with an empty text payload
\* makes generate fail with the backend error; no call returns an empty
\* string.
C4_EmptyPayloadFails ==
    pc = "done"
        => /\ EmptyPayload(transport[1]) => gen.kind \in BackendErrors
           /\ gen.kind = "ok" => gen.text # PyStr(<<>>)

-----------------------------------------------------------------------------
(* Properties of normalisation (SpecNorm) *)

\* the number of entries of a returned object
SizeOf(v) == IF v.t = "str" THEN Len(v.s) ELSE Len(v.items)

\* C5: whatever the raw text and the requested count >= 0, a quiz that
\* create_quiz returns has at most the requested number of entries.
C5_AtMostRequested ==
    (pc = "done" /\ result.kind = "ok") => SizeOf(result.value) <= num_questions

C5_Witness ==
    /\ pc = "done" /\ result.kind = "ok"
    /\ quiz_data.t = "list" /\ Len(quiz_data.items) > num_questions
    /\ Len(result.value.items) = num_questions /\ num_questions >= 1

\* the raw text serialises a list, or an object whose questions is a list
SerialisesQuestions ==
    \/ src_value.t = "list"
    \/ /\ src_value.t = "dict" /\ HasKey(src_value, K_questions)
       /\ Lookup(src_value, K_questions).t = "list"

\* the list the raw text serialises
SerialisedQuestions ==
    IF src_value.t = "list" THEN src_value ELSE Lookup(src_value, K_questions)

\* the first n entries of xs
FirstN(xs, n) == [i \in 1..(IF n < Len(xs) THEN n ELSE Len(xs)) |-> xs[i]]

C7_NeverThrows ==
    pc = "done"
        => /\ result.kind \in {"ok", "HFError"}
           /\ result.kind = "ok" => result.value.t = "list"

\* the pieces of str left when the intervals of cuts are taken out, as
\* <<first, last>> index pairs (first = last + 1 for an empty piece)
PiecesOf(str, cuts) ==
    {<<lo, IF \E c \in cuts : c[1] >= lo
           THEN Min({c[1] : c \in {d \in cuts : d[1] >= lo}}) - 1
           ELSE Len(str)>> : lo \in {1} \cup {c[2] + 1 : c \in cuts}}

\* those pieces that hold a character other than white space
LivePieces(str, cuts) ==
    {p \in PiecesOf(str, cuts) : \E k \in p[1]..p[2] : ~IsSpace(str[k])}

\* the k-th piece of a set of pieces, in text order
NthPiece(pieces, k) ==
    CHOOSE p \in pieces : Cardinality({q \in pieces : q[1] < p[1]}) = k - 1

\* the k-th smallest of a set of numbers
NthOf(S, k) == CHOOSE x \in S : Cardinality({y \in S : y < x}) = k - 1

\* the occurrences of Q<digits> followed by ':', '.' or '-', either case
MarkersIn(str) ==
    {c \in (1..Len(str)) \X (1..Len(str)) :
        /\ str[c[1]] \in {"Q", "q"} /\ c[2] > c[1] + 1
        /\ \A k \in (c[1] + 1)..(c[2] - 1) : str[k] \in Digits
        /\ str[c[2]] \in {":", ".", "-"}}

NewlinesIn(str) == {<<i, i>> : i \in {k \in 1..Len(str) : str[k] = "\n"}}

\* a line that begins with a letter A-D, either case, and then ')' or '.'
BeginsWithOptionLetter(line) ==
    /\ Len(line) >= 2
    /\ UpperChar(line[1]) \in {"A", "B", "C", "D"}
    /\ line[2] = ")" \/ line[2] = "."

\* question q is what segment seg of the text yields: its text is the first
\* non-empty trimmed line, its options are the later lines that begin with
\* an option letter, in order
YieldedBy(q, seg) ==
    LET lines == LivePieces(seg, NewlinesIn(seg))
        line(k) == Strip(SubSeq(seg, NthPiece(lines, k)[1], NthPiece(lines, k)[2]))
        marked == {k \in 2..Cardinality(lines) : BeginsWithOptionLetter(line(k))}
        opts == Lookup(q, K_options).items
    IN  /\ Lookup(q, K_question).s = line(1)
        /\ Len(opts) = Cardinality(marked)
        /\ \A m \in 1..Len(opts) : opts[m].s = line(NthOf(marked, m))

\* the raw text does not take the strict JSON path
TakesTolerantPath ==
    \/ src_value = PyNone
    \/ src_value.t = "dict" /\ ~HasKey(src_value, K_questions)

\* C9: off the strict JSON path, format_quiz returns one question per
\* non-empty segment between Q<digits> markers, in order; its text is the
\* segment's first non-empty trimmed line, its options are exactly the later
\* lines that begin with a letter A-D (either case) and ')' or '.', and
\* every option occurs in the raw text.
C9_TolerantPathExact ==
    (pc = "done" /\ TakesTolerantPath)
        => LET segs == LivePieces(raw_text, MarkersIn(raw_text))
               qs == quiz_data.items
           IN  /\ quiz_data.t = "list"
               /\ Len(qs) = Cardinality(segs)
               /\ \A p \in 1..Len(qs) :
                    /\ YieldedBy(qs[p], SubSeq(raw_text, NthPiece(segs, p)[1],
                                                NthPiece(segs, p)[2]))
                    /\ \A m \in 1..Len(OptionsOf(qs[p])) :
                         Contains(raw_text, OptionsOf(qs[p])[m].s)

C9_Witness ==
    /\ pc = "done" /\ raw_text = ExampleText /\ num_questions = MaxCount
    /\ quiz_data = PyList(<<Question(
           <<"W","h","a","t"," ","i","s"," ","2","+","2","?">>,
           << <<"A",")"," ","3">>, <<"B",")"," ","4">> >>,
           <<"A","n","s","w","e","r",":"," ","B">>)>>)

-----------------------------------------------------------------------------
(* Properties of the session (Spec) *)

\* C8: a question whose answer line names no option letter, the sentinel
\* "Answer: Not provided" in particular, is never scored as correct,
\* whatever the user selected.
C8_NoLetterNoCredit ==
    (last.op = "submit" /\ session.has_quiz)
        => \A i \in 1..Len(score.verdicts) :
               Lookup(session.quiz.items[i], K_answer).s = NotProvided
                   => ~score.verdicts[i]

\* C10: a Generate Quiz run that fails leaves the stored quiz and answers
\* as they were, a run that succeeds stores the new quiz with no answers,
\* and the stored quiz is always the result of the latest successful
\* create_quiz.
C10_FailedGenerateKeepsQuiz ==
    [][/\ (pc = "idle" /\ pc' = "ran_handler")
            => IF last'.kind = "ok"
               THEN session' = [has_quiz |-> TRUE, quiz |-> good_quiz', answers |-> <<>>]
               ELSE session' = session /\ good_quiz' = good_quiz
       /\ session'.has_quiz => session'.quiz = good_quiz']_vars

C10_Witness ==
    /\ pc = "ran_handler" /\ last.op = "generate" /\ last.msg = "empty_quiz"
    /\ session.has_quiz /\ session.quiz = good_quiz
    /\ \E i \in 1..Len(session.answers) : session.answers[i] # PyNone

====
